---- MODULE Spec2Model ----
(***************************************************************************)
(* Model of gifception.py: the Gifception orchestrator with its pool of   *)
(* FrameWorker processes (two multiprocessing queues per run), the         *)
(* nested-base builder prepare_nested_base, and the AnchoredImage          *)
(* operations scale, zoom_in, paste_aligned and set_anchor_absolute.       *)
(*                                                                         *)
(* Spec         : the orchestrator and the frame workers; wait_for_frames  *)
(*                is called with or without a timeout.                     *)
(* SpecBlocking : the same where the caller never passes a timeout.        *)
(* LiveSpec     : SpecBlocking with the fairness that the scheduler of the *)
(*                operating system and the blocking joins give.            *)
(* SpecExample  : make_frames() alone, on the documented example and on    *)
(*                bounded inputs, with no failing write.                   *)
(* SpecPrepare  : prepare_nested_base statement by statement.              *)
(* LivePrepare  : SpecPrepare where the process keeps running.             *)
(* SpecImg      : the AnchoredImage operations applied to bounded inputs.  *)
(***************************************************************************)
EXTENDS Integers, Sequences, FiniteSets, TLC

\* ---------------------------------------------------------------- bounds
MaxFrames == 2
MaxProcs == 2
MaxRuns == 2
MaxCalls == 3
MaxDim == 3

\* Python's None; the frame indices are range(1, nf+1), so 0 is free.
None == 0

VARIABLES
  nf,             \* params["num_frames"]
  nt,             \* config["num_processes"]
  run,            \* number of runs started; self.qin/self.qout are those of this run
  qin,            \* qin[r]: the task queue created by run r
  qout,           \* qout[r]: the result queue created by run r
  fw,             \* fw[<<r, pn>>]: FrameWorker pn of run r: [pc, nframe]
  frame_workers,  \* self.frame_workers
  files,          \* files[r][name]: number of times the file was saved in run r's directory
  failed,         \* failed[r]: a make_frame call of run r raised
  pc,             \* where the main process is
  toJoin,         \* the part of self.frame_workers.copy() not yet iterated over
  timeout,        \* wait_for_frames was given a timeout
  joinExpired,    \* a join of the latest wait returned while its worker was in make_frame
  lastCall,       \* the latest method called on the Gifception object
  lastResult,     \* how it ended
  calls,          \* number of calls made
  frames,         \* frames[r][name]: the image last saved under that name in run r
  base_image,     \* self.base_image of the Gifception object
  params,         \* self.params: [preup, inner_scale, downscale]
  nested_base,    \* self.nested_base
  mini,           \* the local mini of prepare_nested_base
  true_scale,     \* its local true_scale
  bpc,            \* where prepare_nested_base is
  img,            \* an AnchoredImage: [w, h, rel_anchor]
  max_pixels,     \* its config["max_pixels"]
  op,             \* the latest AnchoredImage operation and its arguments
  res             \* its outcome

poolVars == <<nf, nt, run, qin, qout, fw, frame_workers, files, frames, failed,
              pc, toJoin, timeout, joinExpired, lastCall, lastResult, calls>>
buildVars == <<base_image, params, nested_base, mini, true_scale, bpc>>
imgVars == <<img, max_pixels, op, res>>
vars == <<nf, nt, run, qin, qout, fw, frame_workers, files, frames, failed, pc,
          toJoin, timeout, joinExpired, lastCall, lastResult, calls,
          base_image, params, nested_base, mini, true_scale, bpc,
          img, max_pixels, op, res>>

Runs == 1..MaxRuns
\* the processes a run can have: one more than MaxProcs, for the documented
\* example with three workers
WorkerIds == Runs \X (1..MaxProcs + 1)

\* range(a, b) as a sequence
RECURSIVE range(_, _)
range(a, b) == IF a >= b THEN <<>> ELSE <<a>> \o range(a + 1, b)

\* [x]*n
RECURSIVE Repeat(_, _)
Repeat(x, n) == IF n <= 0 THEN <<>> ELSE <<x>> \o Repeat(x, n - 1)

\* --------------------------------------------------------- AnchoredImage
\* Numbers that Python holds as floats are fractions <<numerator, denominator>>
\* with denominator > 0; the factors used are exact in binary floating point.
RECURSIVE GCD(_, _)
GCD(a, b) == IF b = 0 THEN a ELSE GCD(b, a % b)
Abs(a) == IF a < 0 THEN -a ELSE a
Frac(n, d) ==
  LET g == GCD(Abs(n), d) IN IF g = 0 THEN <<0, 1>> ELSE <<n \div g, d \div g>>

\* the attribute was never assigned
Unset == <<>>

Dims == 1..MaxDim
Factors == {<<1, 2>>, <<1, 1>>, <<3, 2>>, <<2, 1>>}
\* config["max_pixels"] values tried (the default is 8e8)
ConfigLimits == {-1, 0, 2, 8}
\* max_pixels arguments tried; 0 stands for the falsy None and 0 alike
ArgLimits == {0, -1, 2, 8}
RelAnchors == {<<<<1, 2>>, <<1, 2>>>>, <<<<0, 1>>, <<1, 1>>>>}
Points == {<<1, 1>>, <<MaxDim + 1, 1>>, <<1, MaxDim + 1>>, <<-1, 1>>, <<1, -1>>}

\* the images pasted in paste_aligned
Others == {[w |-> w, h |-> w, rel_anchor |-> a] : w \in {1, MaxDim}, a \in RelAnchors}

NoImg == [w |-> 1, h |-> 1, rel_anchor |-> <<<<1, 2>>, <<1, 2>>>>]
NoOp == [name |-> "none", factor |-> <<1, 1>>, arg |-> 0, p |-> <<0, 0>>,
         other |-> NoImg]
NoRes == [raised |-> "none", why |-> "none", returned |-> "None",
          before |-> NoImg, compared |-> 0, reported |-> 0,
          abs |-> <<>>, get_abs |-> <<>>, box |-> <<>>, offset |-> <<>>,
          other |-> NoImg]

\* a*b, a-b on fractions; math.ceil(a); round(a), which rounds halves to even
FMul(a, b) == Frac(a[1] * b[1], a[2] * b[2])
FSub(a, b) == Frac(a[1] * b[2] - b[1] * a[2], a[2] * b[2])
Ceil(a) == -((-a[1]) \div a[2])
Round(a) ==
  LET q == a[1] \div a[2]
      r == a[1] % a[2]
  IN IF 2 * r < a[2] THEN q
     ELSE IF 2 * r > a[2] THEN q + 1
     ELSE IF q % 2 = 0 THEN q ELSE q + 1

\* AnchoredImage.anchor_absolute(): (w*rx, h*ry)
anchor_absolute(im) ==
  <<FMul(<<im.w, 1>>, im.rel_anchor[1]), FMul(<<im.h, 1>>, im.rel_anchor[2])>>

\* AnchoredImage.get_anchor_absolute(): (rx*w, ry*h)
get_anchor_absolute(im) ==
  <<FMul(im.rel_anchor[1], <<im.w, 1>>), FMul(im.rel_anchor[2], <<im.h, 1>>)>>

\* what the operations report about the image they leave
seen(im, out) ==
  IF im.rel_anchor = Unset THEN out
  ELSE [out EXCEPT !.abs = anchor_absolute(im),
                   !.get_abs = get_anchor_absolute(im)]

\* reading self.rel_anchor when __init__ left it unassigned
no_anchor(name) ==
  /\ op' = [NoOp EXCEPT !.name = name]
  /\ res' = [NoRes EXCEPT !.before = img, !.raised = "AttributeError"]
  /\ UNCHANGED img

\* max_pixels = max_pixels or self.config["max_pixels"]
reported_limit(arg, config) == IF arg # 0 THEN arg ELSE config

\* the limit npx is compared with: self.config["max_pixels"]
compared_limit(arg, config) == config

\* npx > limit, for npx = w*h*factor**2: with factor = a/b that is
\* w*h*a*a > limit*b*b, written so that the default limit stays in range
exceeds(w, h, factor, limit) ==
  (w * h * factor[1] * factor[1] - 1) \div (factor[2] * factor[2]) >= limit

\* int(w*factor)
new_dim(w, factor) == (w * factor[1]) \div factor[2]

\* why scale(factor) raises on im, the limit compared being `limit`:
\* the pixel limit, or Image.resize refusing an empty size
scale_raises(im, factor, limit) ==
  IF exceeds(im.w, im.h, factor, limit) /\ limit > 0 THEN "max_pixels"
  ELSE IF new_dim(im.w, factor) = 0 \/ new_dim(im.h, factor) = 0 THEN "resize"
  ELSE "none"

\* variant: the anchor is kept at its absolute position
scaled_anchor_kept_absolute(im, factor) ==
  [im EXCEPT !.w = new_dim(im.w, factor), !.h = new_dim(im.h, factor),
             !.rel_anchor = <<FMul(im.rel_anchor[1], <<im.w, new_dim(im.w, factor)>>),
                              FMul(im.rel_anchor[2], <<im.h, new_dim(im.h, factor)>>)>>]
\* the image after a scale(factor) that does not raise
scaled(im, factor) ==
  [im EXCEPT !.w = new_dim(im.w, factor), !.h = new_dim(im.h, factor)]

\* AnchoredImage.scale(factor, max_pixels)
scale(factor, arg) ==
  LET limit == compared_limit(arg, max_pixels)
      why == scale_raises(img, factor, limit)
      out == [NoRes EXCEPT !.before = img, !.compared = limit,
                           !.reported = reported_limit(arg, max_pixels)]
  IN
  /\ new_dim(img.w, factor) <= MaxDim /\ new_dim(img.h, factor) <= MaxDim
  /\ op' = [NoOp EXCEPT !.name = "scale", !.factor = factor, !.arg = arg]
  /\ IF why # "none"
       THEN /\ res' = seen(img, [out EXCEPT !.raised = "ValueError", !.why = why])
            /\ UNCHANGED img
       ELSE /\ res' = seen(scaled(img, factor), out)
            /\ img' = scaled(img, factor)
  /\ UNCHANGED max_pixels
  /\ UNCHANGED <<poolVars, buildVars>>

\* AnchoredImage._zoom_in_box(factor): the rounded crop box
zoom_in_box(im, factor) ==
  LET inv == <<factor[2], factor[1]>>
      ws == FMul(<<im.w, 1>>, inv)
      hs == FMul(<<im.h, 1>>, inv)
      ox == FMul(FMul(im.rel_anchor[1], <<im.w, 1>>), FSub(<<1, 1>>, inv))
      oy == FMul(FMul(im.rel_anchor[2], <<im.h, 1>>), FSub(<<1, 1>>, inv))
  IN <<Round(ox), Round(oy), Round(ox) + Round(ws), Round(oy) + Round(hs)>>

\* the image after zoom_in: the crop is resized to the size it had
zoomed(im, factor) == [im EXCEPT !.w = im.w, !.h = im.h]

\* AnchoredImage.zoom_in(factor), for a crop box that is not empty
zoom_in(factor) ==
  /\ IF img.rel_anchor = Unset THEN no_anchor("zoom_in")
     ELSE LET box == zoom_in_box(img, factor) IN
          /\ box[3] > box[1] /\ box[4] > box[2]
          /\ op' = [NoOp EXCEPT !.name = "zoom_in", !.factor = factor]
          /\ res' = seen(zoomed(img, factor),
                         [NoRes EXCEPT !.before = img, !.box = box])
          /\ img' = zoomed(img, factor)
  /\ UNCHANGED max_pixels
  /\ UNCHANGED <<poolVars, buildVars>>

\* the offset at which paste_aligned pastes other onto im
paste_offset(im, other) ==
  LET a == get_anchor_absolute(im)
      b == get_anchor_absolute(other)
  IN <<Ceil(FSub(a[1], b[1])), Ceil(FSub(a[2], b[2]))>>

\* AnchoredImage.paste_aligned(other): Image.paste clips, it does not raise
paste_aligned(other) ==
  /\ IF img.rel_anchor = Unset THEN no_anchor("paste_aligned")
     ELSE /\ op' = [NoOp EXCEPT !.name = "paste_aligned", !.other = other]
          /\ res' = seen(img, [NoRes EXCEPT !.before = img, !.other = other,
                                            !.offset = paste_offset(img, other)])
          /\ UNCHANGED img
  /\ UNCHANGED max_pixels
  /\ UNCHANGED <<poolVars, buildVars>>

\* the two statements of set_anchor_absolute, on an image with anchor `before`
anchor_result(name, p, w, h, before) ==
  LET out == [NoRes EXCEPT !.before = [w |-> w, h |-> h, rel_anchor |-> before]] IN
  /\ op' = [NoOp EXCEPT !.name = name, !.p = p]
  /\ IF p[1] > w \/ p[2] > h
       THEN /\ res' = [out EXCEPT !.returned = "ValueError"]
            /\ img' = [w |-> w, h |-> h, rel_anchor |-> before]
       ELSE /\ res' = out
            /\ img' = [w |-> w, h |-> h,
                       rel_anchor |-> <<Frac(p[1], w), Frac(p[2], h)>>]

\* AnchoredImage.set_anchor_absolute(p)
set_anchor_absolute(p) ==
  /\ anchor_result("set_anchor_absolute", p, img.w, img.h, img.rel_anchor)
  /\ UNCHANGED max_pixels
  /\ UNCHANGED <<poolVars, buildVars>>

\* Gifception.set_anchor_absolute(pt), img being the base image
Gifception_set_anchor_absolute(pt) ==
  /\ anchor_result("Gifception.set_anchor_absolute", pt, img.w, img.h,
                   img.rel_anchor)
  /\ UNCHANGED max_pixels
  /\ UNCHANGED <<poolVars, buildVars>>

\* AnchoredImage(img, anchor, relative = False, config), with the same config
new_absolute(w, h, anchor) ==
  /\ anchor_result("__init__", anchor, w, h, Unset)
  /\ UNCHANGED max_pixels
  /\ UNCHANGED <<poolVars, buildVars>>

\* ------------------------------------------------- the nested-base builder
\* AnchoredImage._default_config["max_pixels"], the limit of every deep copy
DefaultMaxPixels == 800000000

\* self.nested_base is None
NoBase == [w |-> 0, h |-> 0, rel_anchor |-> Unset, pastes |-> <<>>]

\* copy.deepcopy(im): the same pixels and anchor, the default config
deepcopy(im) ==
  [w |-> im.w, h |-> im.h, rel_anchor |-> im.rel_anchor, pastes |-> im.pastes]

\* s = 1/self.params["inner_scale"]
s == Frac(params.inner_scale[2], params.inner_scale[1])

\* variant: the paste leaves no trace
pasted_nothing(nb, m) == nb
\* nb after nb.paste_aligned(m). The pixels of nb are its size and the list
\* of what was pasted onto it; pasting again what was pasted last, at the same
\* place, writes the same pixels.
pasted(nb, m) ==
  LET p == [at |-> paste_offset(nb, m), w |-> m.w, h |-> m.h] IN
  IF nb.pastes # <<>> /\ nb.pastes[Len(nb.pastes)] = p THEN nb
  ELSE [nb EXCEPT !.pastes = Append(@, p)]

\* prepare_nested_base up to the loop: the two deep copies and their scaling,
\* neither inside the try
before_loop(base, ps) ==
  LET nb == deepcopy(base)
      m == deepcopy(base)
      f == FMul(ps.preup, Frac(ps.inner_scale[2], ps.inner_scale[1]))
  IN IF scale_raises(nb, ps.preup, DefaultMaxPixels) # "none"
       THEN [nested_base |-> nb, mini |-> m, raised |-> TRUE]
     ELSE IF scale_raises(m, f, DefaultMaxPixels) # "none"
       THEN [nested_base |-> scaled(nb, ps.preup), mini |-> m, raised |-> TRUE]
     ELSE [nested_base |-> scaled(nb, ps.preup), mini |-> scaled(m, f),
           raised |-> FALSE]

\* the loop, run to its break
RECURSIVE grown(_, _, _)
grown(nb, m, f) ==
  IF scale_raises(m, f, DefaultMaxPixels) # "none" THEN pasted(nb, m)
  ELSE grown(pasted(nb, m), scaled(m, f), f)

\* Gifception.prepare_nested_base(), for an inner_scale with which it returns
prepare_nested_base(base, ps) ==
  LET b == before_loop(base, ps) IN
  IF b.raised THEN [nested_base |-> b.nested_base, raised |-> TRUE]
  ELSE [nested_base |-> grown(b.nested_base, b.mini,
                              Frac(ps.inner_scale[2], ps.inner_scale[1])),
        raised |-> FALSE]

\* prepare_nested_base is entered and reaches its loop, or raises before it
enter_prepare_nested_base ==
  /\ bpc = "idle"
  /\ LET b == before_loop(base_image, params) IN
       /\ nested_base' = b.nested_base
       /\ IF b.raised
            THEN bpc' = "raised" /\ UNCHANGED <<mini, true_scale>>
            ELSE bpc' = "paste" /\ mini' = b.mini /\ true_scale' = s
  /\ UNCHANGED <<base_image, params>>
  /\ UNCHANGED <<poolVars, imgVars>>

\* self.nested_base.paste_aligned(mini)
loop_paste ==
  /\ bpc = "paste"
  /\ nested_base' = pasted(nested_base, mini)
  /\ bpc' = "scale"
  /\ UNCHANGED <<base_image, params, mini, true_scale>>
  /\ UNCHANGED <<poolVars, imgVars>>

\* mini.scale(s); true_scale *= s, or the ValueError that breaks the loop
loop_scale ==
  /\ bpc = "scale"
  /\ IF scale_raises(mini, s, DefaultMaxPixels) # "none"
       THEN bpc' = "done" /\ UNCHANGED <<mini, true_scale>>
       ELSE /\ mini' = scaled(mini, s)
            /\ true_scale' = FMul(true_scale, s)
            /\ bpc' = "paste"
  /\ UNCHANGED <<base_image, params, nested_base>>
  /\ UNCHANGED <<poolVars, imgVars>>

\* ------------------------------------------------------------ the pool
\* Gifception._default_params; num_frames is nf
_default_params ==
  [preup |-> <<2, 1>>, inner_scale |-> <<4, 1>>, downscale |-> <<2, 1>>,
   paste_within |-> TRUE]

\* the base images given to Gifception(base_image, params, config)
BaseImages ==
  {[w |-> d, h |-> d, rel_anchor |-> <<<<1, 2>>, <<1, 2>>>>, pastes |-> <<>>] :
     d \in {1, MaxDim}}

\* a FrameWorker that was not created
unstarted == [pc |-> "unstarted", nframe |-> None, nested_base |-> NoBase]

\* the builder is not running
InitBuild ==
  /\ nested_base = NoBase
  /\ mini = NoBase
  /\ true_scale = <<1, 1>>
  /\ bpc = "idle"

InitPool ==
  /\ run = 0
  /\ qin = [r \in Runs |-> <<>>]
  /\ qout = [r \in Runs |-> <<>>]
  /\ fw = [w \in WorkerIds |-> unstarted]
  /\ frame_workers = {}
  /\ files = [r \in Runs |-> <<>>]
  /\ frames = [r \in Runs |-> <<>>]
  /\ failed = [r \in Runs |-> FALSE]
  /\ pc = "idle"
  /\ toJoin = {}
  /\ timeout = FALSE
  /\ joinExpired = FALSE
  /\ lastCall = "none"
  /\ lastResult = "none"
  /\ calls = 0

Init ==
  /\ nf \in 1..MaxFrames
  /\ nt \in 1..MaxProcs
  /\ InitPool
  /\ base_image \in BaseImages
  /\ params = _default_params
  /\ InitBuild
  /\ img = NoImg /\ max_pixels = 0 /\ op = NoOp /\ res = NoRes

\* variants: one stop marker short; the last frame left out; the stop
\* markers first
qin_l_short == range(1, nf + 1) \o Repeat(None, nt - 1)
qin_l_nolast == range(1, nf) \o Repeat(None, nt)
qin_l_markers_first == Repeat(None, nt) \o range(1, nf + 1)
\* the list of frames to be consumed
qin_l == range(1, nf + 1) \o Repeat(None, nt)

\* variant: the capacity leaves the stop markers out
maxsize_frames_only == nf
\* Queue(nt + nf)
maxsize == nt + nf

\* variant: the guard left out
never_in_progress == FALSE
\* len(self.frame_workers) is truthy
in_progress == Cardinality(frame_workers) # 0

\* variant: the stop markers not counted
tq_frames_only == nf
\* the total the result queue must reach
tq == nt + nf

\* Gifception.is_making_frames(), once a run has set self.qout
is_making_frames == Len(qout[run]) < tq

\* the self.qin attribute: __init__ never sets it
qin_attr == IF run = 0 THEN "unset" ELSE "queue"

\* Process.join returns: the process has ended
has_ended(w) == fw[w].pc \in {"done", "failed"}

\* the process has been started and has not ended
alive(w) == fw[w].pc \notin {"unstarted", "done", "failed"}

\* A worker of run r is still running, and holds the run's queues and
\* directory. start_making_frames replaces self.qin and self.qout, and
\* self.frame_workers is empty when it does, so the Gifception object keeps
\* nothing of an earlier run: the state of an earlier run without a running
\* worker is dropped when a new run starts.
referenced(r) == \E w \in WorkerIds : w[1] = r /\ alive(w)

\* if self.nested_base is None: self.prepare_nested_base()
built ==
  IF nested_base = NoBase THEN prepare_nested_base(base_image, params)
  ELSE [nested_base |-> nested_base, raised |-> FALSE]

\* the body of start_making_frames once self.nested_base is there; the
\* processes get their copy of it
LaunchRun ==
  /\ run < MaxRuns
  /\ run' = run + 1
  /\ qin' = [r \in Runs |-> IF r = run + 1 THEN qin_l
                            ELSE IF referenced(r) THEN qin[r] ELSE <<>>]
  /\ qout' = [r \in Runs |-> IF r # run + 1 /\ referenced(r) THEN qout[r] ELSE <<>>]
  /\ files' = [r \in Runs |-> IF r # run + 1 /\ referenced(r) THEN files[r] ELSE <<>>]
  /\ failed' = [r \in Runs |-> r # run + 1 /\ referenced(r) /\ failed[r]]
  /\ frames' = [r \in Runs |-> IF r # run + 1 /\ referenced(r) THEN frames[r] ELSE <<>>]
  /\ fw' = [w \in WorkerIds |->
              IF w[1] = run + 1 /\ w[2] \in 1..nt
                THEN [pc |-> "get", nframe |-> None, nested_base |-> nested_base']
              ELSE IF referenced(w[1]) THEN fw[w]
              ELSE unstarted]
  /\ frame_workers' = frame_workers \cup {<<run + 1, pn>> : pn \in 1..nt}

start_making_frames ==
  /\ pc = "idle"
  /\ calls < MaxCalls
  /\ calls' = calls + 1
  /\ lastCall' = "start_making_frames"
  /\ IF in_progress
       THEN /\ lastResult' = "InProgress"
            /\ UNCHANGED <<run, qin, qout, fw, frame_workers, files, frames, failed>>
            /\ UNCHANGED nested_base
       ELSE IF built.raised
       THEN /\ lastResult' = "ValueError"
            /\ nested_base' = built.nested_base
            /\ UNCHANGED <<run, qin, qout, fw, frame_workers, files, frames, failed>>
       ELSE /\ nested_base' = built.nested_base
            /\ LaunchRun
            /\ lastResult' = "ok"
  /\ UNCHANGED <<nf, nt, pc, toJoin, timeout, joinExpired>>
  /\ UNCHANGED <<base_image, params, mini, true_scale, bpc>>
  /\ UNCHANGED imgVars

wait_for_frames(t) ==
  /\ pc = "idle"
  /\ calls < MaxCalls
  /\ calls' = calls + 1
  /\ lastCall' = "wait_for_frames"
  /\ IF qin_attr = "unset"
       THEN /\ lastResult' = "AttributeError"
            /\ UNCHANGED <<pc, toJoin, timeout, joinExpired>>
       ELSE IF qin_attr = "None"
       THEN /\ lastResult' = "NeverStarted"
            /\ UNCHANGED <<pc, toJoin, timeout, joinExpired>>
       ELSE /\ lastResult' = "pending"
            /\ pc' = "joining"
            /\ toJoin' = frame_workers
            /\ timeout' = t
            /\ joinExpired' = FALSE
  /\ UNCHANGED <<nf, nt, run, qin, qout, fw, frame_workers, files, frames, failed>>
  /\ UNCHANGED <<buildVars, imgVars>>

make_frames ==
  /\ pc = "idle"
  /\ calls < MaxCalls
  /\ calls' = calls + 1
  /\ lastCall' = "make_frames"
  /\ IF in_progress
       THEN /\ lastResult' = "InProgress"
            /\ UNCHANGED <<run, qin, qout, fw, frame_workers, files, frames, failed,
                           pc, toJoin, timeout, joinExpired>>
            /\ UNCHANGED nested_base
       ELSE IF built.raised
       THEN /\ lastResult' = "ValueError"
            /\ nested_base' = built.nested_base
            /\ UNCHANGED <<run, qin, qout, fw, frame_workers, files, frames, failed,
                           pc, toJoin, timeout, joinExpired>>
       ELSE /\ nested_base' = built.nested_base
            /\ LaunchRun
            /\ lastResult' = "pending"
            /\ pc' = "joining"
            /\ toJoin' = frame_workers'
            /\ timeout' = FALSE
            /\ joinExpired' = FALSE
  /\ UNCHANGED <<nf, nt>>
  /\ UNCHANGED <<base_image, params, mini, true_scale, bpc>>
  /\ UNCHANGED imgVars

\* fw.join(timeout); self.frame_workers.remove(fw)
join(w) ==
  /\ pc = "joining"
  /\ w \in toJoin
  /\ has_ended(w) \/ timeout
  /\ toJoin' = toJoin \ {w}
  /\ frame_workers' = frame_workers \ {w}
  /\ joinExpired' = (joinExpired \/ fw[w].pc = "render")
  /\ UNCHANGED <<nf, nt, run, qin, qout, fw, files, frames, failed, pc, timeout,
                 lastCall, lastResult, calls>>
  /\ UNCHANGED <<buildVars, imgVars>>

\* if not self.qin.empty(): raise
check_qin ==
  /\ pc = "joining"
  /\ toJoin = {}
  /\ IF qin[run] # <<>>
       THEN pc' = "idle" /\ lastResult' = "NotConsumed"
       ELSE pc' = "check_qout" /\ UNCHANGED lastResult
  /\ UNCHANGED <<nf, nt, run, qin, qout, fw, frame_workers, files, frames, failed,
                 toJoin, timeout, joinExpired, lastCall, calls>>
  /\ UNCHANGED <<buildVars, imgVars>>

\* if self.qout.qsize() != tq: raise
check_qout ==
  /\ pc = "check_qout"
  /\ pc' = "idle"
  /\ lastResult' = IF Len(qout[run]) # tq THEN "NotProduced" ELSE "ok"
  /\ UNCHANGED <<nf, nt, run, qin, qout, fw, frame_workers, files, frames, failed,
                 toJoin, timeout, joinExpired, lastCall, calls>>
  /\ UNCHANGED <<buildVars, imgVars>>

\* ---------------------------------------------------------- FrameWorker
\* nframe := self.qin.get()
get(w) ==
  /\ fw[w].pc = "get"
  /\ qin[w[1]] # <<>>
  /\ LET nframe == Head(qin[w[1]]) IN
       fw' = [fw EXCEPT ![w].pc = IF nframe = None THEN "put_none" ELSE "render",
                        ![w].nframe = nframe]
  /\ qin' = [qin EXCEPT ![w[1]] = Tail(@)]
  /\ UNCHANGED <<nf, nt, run, qout, frame_workers, files, frames, failed, pc, toJoin,
                 timeout, joinExpired, lastCall, lastResult, calls>>
  /\ UNCHANGED <<buildVars, imgVars>>

\* the decimal digits of n >= 0
RECURSIVE digits(_)
digits(n) == IF n < 10 THEN <<n>> ELSE Append(digits(n \div 10), n % 10)

\* f"{nframe:05d}", the part of the file name that varies
frame_name(nframe) ==
  LET d == digits(nframe) IN Repeat(0, 5 - Len(d)) \o d

\* variant: nothing is written
save_nothing(dir, nframe) == dir
\* frame.save(".../frame-{nframe:05d}.png")
save(dir, nframe) ==
  LET name == frame_name(nframe) IN
  IF name \in DOMAIN dir
    THEN [dir EXCEPT ![name] = @ + 1]
    ELSE [n \in (DOMAIN dir) \cup {name} |-> IF n = name THEN 1 ELSE dir[n]]

\* a ** b for a natural b
RECURSIVE Pow(_, _)
Pow(a, b) == IF b = 0 THEN 1 ELSE a * Pow(a, b - 1)

\* int(d * mz / inner_scale) >= 1 for mz = inner_scale ** ((nframe-1)/(n-1)),
\* that is d >= inner_scale ** ((n-nframe)/(n-1)), which d >= inner_scale
\* gives for every nframe; compared in the reals
fits(d, k, n, nframe) ==
  \/ d * k[2] >= k[1]
  \/ Pow(d, n - 1) * Pow(k[2], n - nframe) >= Pow(k[1], n - nframe)

\* smaller.scale(mz / inner_scale) did not raise and smaller was pasted; the
\* factor is at most 1 for the inner scales used, so that only an empty size
\* makes it raise
paste_within(nb, ps, n, nframe) ==
  /\ ps.paste_within
  /\ fits(nb.w, ps.inner_scale, n, nframe)
  /\ fits(nb.h, ps.inner_scale, n, nframe)

\* variant: the frame is scaled back to the size of the base
downscale_and_preup(ps) == Frac(ps.downscale[2], ps.downscale[1] * ps.preup[1])
\* 1/self.params["downscale"]
downscale_factor(ps) == Frac(ps.downscale[2], ps.downscale[1])

\* the exception make_frame(nframe) raises by its own arithmetic
make_frame_error(nb, ps, n) ==
  IF n - 1 = 0 THEN "ZeroDivisionError"
  ELSE IF scale_raises(zoomed(deepcopy(nb), ps.inner_scale), downscale_factor(ps),
                       DefaultMaxPixels) # "none" THEN "ValueError"
  ELSE "none"

\* the image make_frame(nframe) saves: frame is a deep copy of nb, zoomed by
\* inner_scale ** zoom, pasted onto, then scaled by 1/downscale
saved_frame(nb, ps, n, nframe) ==
  [w |-> new_dim(zoomed(deepcopy(nb), ps.inner_scale).w, downscale_factor(ps)),
   h |-> new_dim(zoomed(deepcopy(nb), ps.inner_scale).h, downscale_factor(ps)),
   zoom |-> Frac(nframe - 1, n - 1),
   within |-> paste_within(nb, ps, n, nframe),
   of |-> nb]

\* variant: frame is self.nested_base itself, not a deep copy of it
rendered_in_place(nb, ps, n, nframe) ==
  [frame |-> saved_frame(nb, ps, n, nframe),
   nested_base |-> [nb EXCEPT !.w = saved_frame(nb, ps, n, nframe).w,
                              !.h = saved_frame(nb, ps, n, nframe).h]]
\* what make_frame(nframe) leaves: the frame it saved and self.nested_base
rendered(nb, ps, n, nframe) ==
  [frame |-> saved_frame(nb, ps, n, nframe), nested_base |-> nb]

\* the directory's images after frame.save(".../frame-{nframe:05d}.png")
save_image(dir, nframe, frame) ==
  LET name == frame_name(nframe) IN
  [n \in (DOMAIN dir) \cup {name} |-> IF n = name THEN frame ELSE dir[n]]

\* self.make_frame(nframe) returns
make_frame(w) ==
  LET r == rendered(fw[w].nested_base, params, nf, fw[w].nframe) IN
  /\ fw[w].pc = "render"
  /\ make_frame_error(fw[w].nested_base, params, nf) = "none"
  /\ files' = [files EXCEPT ![w[1]] = save(@, fw[w].nframe)]
  /\ frames' = [frames EXCEPT ![w[1]] = save_image(@, fw[w].nframe, r.frame)]
  /\ fw' = [fw EXCEPT ![w].pc = "put", ![w].nested_base = r.nested_base]
  /\ UNCHANGED <<nf, nt, run, qin, qout, frame_workers, failed, pc, toJoin,
                 timeout, joinExpired, lastCall, lastResult, calls>>
  /\ UNCHANGED <<buildVars, imgVars>>

\* variant: the exception is swallowed and run() goes on
make_frame_swallowed(w) ==
  /\ fw[w].pc = "render"
  /\ failed' = [failed EXCEPT ![w[1]] = TRUE]
  /\ fw' = [fw EXCEPT ![w].pc = "put"]
  /\ UNCHANGED <<nf, nt, run, qin, qout, frame_workers, files, frames, pc, toJoin,
                 timeout, joinExpired, lastCall, lastResult, calls>>
  /\ UNCHANGED <<buildVars, imgVars>>
\* self.make_frame(nframe) raises, and so does run(): the process ends
make_frame_raises(w) ==
  /\ fw[w].pc = "render"
  /\ failed' = [failed EXCEPT ![w[1]] = TRUE]
  /\ fw' = [fw EXCEPT ![w].pc = "failed"]
  /\ UNCHANGED <<nf, nt, run, qin, qout, frame_workers, files, frames, pc, toJoin,
                 timeout, joinExpired, lastCall, lastResult, calls>>
  /\ UNCHANGED <<buildVars, imgVars>>

\* self.qout.put(nframe)
put(w) ==
  /\ fw[w].pc = "put"
  /\ Len(qout[w[1]]) < maxsize
  /\ qout' = [qout EXCEPT ![w[1]] = Append(@, fw[w].nframe)]
  /\ fw' = [fw EXCEPT ![w].pc = "get"]
  /\ UNCHANGED <<nf, nt, run, qin, frame_workers, files, frames, failed, pc, toJoin,
                 timeout, joinExpired, lastCall, lastResult, calls>>
  /\ UNCHANGED <<buildVars, imgVars>>

\* self.qout.put(None), and run() returns
put_none(w) ==
  /\ fw[w].pc = "put_none"
  /\ Len(qout[w[1]]) < maxsize
  /\ qout' = [qout EXCEPT ![w[1]] = Append(@, None)]
  /\ fw' = [fw EXCEPT ![w].pc = "done"]
  /\ UNCHANGED <<nf, nt, run, qin, frame_workers, files, frames, failed, pc, toJoin,
                 timeout, joinExpired, lastCall, lastResult, calls>>
  /\ UNCHANGED <<buildVars, imgVars>>

Next ==
  \/ start_making_frames
  \/ \E t \in BOOLEAN : wait_for_frames(t)
  \/ make_frames
  \/ \E w \in WorkerIds : join(w)
  \/ check_qin
  \/ check_qout
  \/ \E w \in WorkerIds : get(w)
  \/ \E w \in WorkerIds : make_frame(w)
  \/ \E w \in WorkerIds : make_frame_raises(w)
  \/ \E w \in WorkerIds : put(w)
  \/ \E w \in WorkerIds : put_none(w)

Spec == Init /\ [][Next]_vars

\* ------------------------------------------- the AnchoredImage operations
\* AnchoredImage(img, anchor, relative = True, config) is the initial state
InitImg ==
  /\ nf = 2 /\ nt = 1
  /\ InitPool
  /\ base_image = NoBase
  /\ params = _default_params
  /\ InitBuild
  /\ \E w \in Dims, h \in Dims, a \in RelAnchors :
       img = [w |-> w, h |-> h, rel_anchor |-> a]
  /\ max_pixels \in ConfigLimits
  /\ op = NoOp
  /\ res = NoRes

NextImg ==
  \/ \E f \in Factors, a \in ArgLimits : scale(f, a)
  \/ \E f \in Factors : zoom_in(f)
  \/ \E o \in Others : paste_aligned(o)
  \/ \E p \in Points : set_anchor_absolute(p)
  \/ \E p \in Points : Gifception_set_anchor_absolute(p)
  \/ \E w \in Dims, h \in Dims, p \in Points : new_absolute(w, h, p)

SpecImg == InitImg /\ [][NextImg]_vars

\* ------------------------------------------- prepare_nested_base alone
Preups == {<<1, 2>>, <<1, 1>>, <<2, 1>>}
InnerScales == {<<1, 1>>, <<2, 1>>, <<4, 1>>}

InitPrepare ==
  /\ nf = 2 /\ nt = 1
  /\ InitPool
  /\ \E w \in Dims, h \in Dims, a \in RelAnchors :
       base_image = [w |-> w, h |-> h, rel_anchor |-> a, pastes |-> <<>>]
  /\ \E p \in Preups, k \in InnerScales :
       params = [_default_params EXCEPT !.preup = p, !.inner_scale = k]
  /\ InitBuild
  /\ img = NoImg /\ max_pixels = 0 /\ op = NoOp /\ res = NoRes

NextPrepare ==
  \/ enter_prepare_nested_base
  \/ loop_paste
  \/ loop_scale

SpecPrepare == InitPrepare /\ [][NextPrepare]_vars

\* the process that runs prepare_nested_base keeps running
LivePrepare == InitPrepare /\ [][NextPrepare]_vars /\ WF_vars(NextPrepare)

\* ------------------------------------------------ make_frames() alone
\* the documented example (800x600, five frames, three workers), or a base
\* image and numbers within the bounds; the parameters are the defaults
InitExample ==
  /\ \/ /\ nf = 5 /\ nt = 3
        /\ base_image = [w |-> 800, h |-> 600, rel_anchor |-> <<<<1, 2>>, <<1, 2>>>>,
                         pastes |-> <<>>]
     \/ /\ nf \in 2..MaxFrames /\ nt \in 1..MaxProcs
        /\ base_image \in {b \in BaseImages : b.w = MaxDim}
  /\ InitPool
  /\ params = _default_params
  /\ InitBuild
  /\ img = NoImg /\ max_pixels = 0 /\ op = NoOp /\ res = NoRes

\* make_frames() is the only call, and no write to the directory fails
NextExample ==
  \/ make_frames
  \/ \E w \in WorkerIds : join(w)
  \/ check_qin
  \/ check_qout
  \/ \E w \in WorkerIds : get(w)
  \/ \E w \in WorkerIds : make_frame(w)
  \/ \E w \in WorkerIds : put(w)
  \/ \E w \in WorkerIds : put_none(w)

SpecExample == InitExample /\ [][NextExample]_vars

\* ------------------------------------------------------------- fairness
\* a started process keeps running until it blocks or ends
run_step(w) ==
  get(w) \/ make_frame(w) \/ make_frame_raises(w) \/ put(w) \/ put_none(w)

\* the main process goes on inside wait_for_frames whenever it is not blocked
wait_step == (\E w \in WorkerIds : join(w)) \/ check_qin \/ check_qout

\* the caller never passes a timeout: every join blocks until its worker ends
NextBlocking ==
  \/ start_making_frames
  \/ wait_for_frames(FALSE)
  \/ make_frames
  \/ \E w \in WorkerIds : join(w)
  \/ check_qin
  \/ check_qout
  \/ \E w \in WorkerIds : get(w)
  \/ \E w \in WorkerIds : make_frame(w)
  \/ \E w \in WorkerIds : make_frame_raises(w)
  \/ \E w \in WorkerIds : put(w)
  \/ \E w \in WorkerIds : put_none(w)

SpecBlocking == Init /\ [][NextBlocking]_vars

LiveSpec ==
  /\ Init /\ [][NextBlocking]_vars
  /\ \A w \in WorkerIds : WF_vars(run_step(w))
  /\ WF_vars(wait_step)

\* ---------------------------------------------------------------- claims
RunWorkers == {w \in WorkerIds : w[1] = run /\ w[2] \in 1..nt}
Incomplete == {"NotConsumed", "NotProduced"}
MakeFramesDone ==
  /\ lastCall = "make_frames" /\ pc = "idle"
  /\ lastResult \notin {"InProgress", "ValueError"}
WaitDone ==
  /\ lastCall \in {"wait_for_frames", "make_frames"}
  /\ pc = "idle"
  /\ lastResult \notin {"InProgress", "AttributeError", "NeverStarted", "ValueError"}

\* C1: for N >= 2 frames and 1 <= P <= N workers, a make_frames() that ended
\* with no failed worker returned normally and left exactly the files
\* frame-00001 .. frame-0000N, each saved exactly once.
C1_ExactlyNFrames ==
  (MakeFramesDone /\ nf >= 2 /\ nt \in 1..nf /\ ~failed[run]) =>
    /\ lastResult = "ok"
    /\ DOMAIN files[run] = {<<0, 0, 0, 0, i>> : i \in 1..nf}
    /\ \A i \in 1..nf : files[run][<<0, 0, 0, 0, i>>] = 1

C1_Witness ==
  /\ MakeFramesDone /\ nf >= 2 /\ nt = 2 /\ ~failed[run]
  /\ \A i \in 1..nf : <<0, 0, 0, 0, i>> \in DOMAIN files[run]

\* C2: wait_for_frames returns normally exactly when, at its end, the task
\* queue is empty and the result queue holds numFrames + P items; every other
\* end of the checks is one of the two incomplete-generation errors.
C2_WaitVerdict ==
  [][(pc # "idle" /\ pc' = "idle") =>
       /\ lastResult' \in {"ok"} \cup Incomplete
       /\ (lastResult' = "ok") <=>
            (qin'[run'] = <<>> /\ Len(qout'[run']) = nf + nt)]_vars

C2_Witness ==
  /\ pc = "idle" /\ lastCall = "wait_for_frames" /\ lastResult = "ok"
  /\ qin[run] = <<>> /\ Len(qout[run]) = nf + nt /\ nt = 2

\* C3: once a make_frame call of the run has raised, a wait_for_frames()
\* without timeout ends with an incomplete-generation error, never normally.
C3_FailureIsReported ==
  (WaitDone /\ ~timeout /\ failed[run]) => lastResult \in Incomplete

C3_Witness ==
  /\ WaitDone /\ ~timeout /\ failed[run] /\ lastResult \in Incomplete
  /\ nt = 2 /\ nf = 2
  /\ \E w \in RunWorkers : fw[w].pc = "done"

\* C4: a start_making_frames() that directly follows a successful
\* start_making_frames() raises "Frame generation still in progress!",
\* starts no worker and replaces neither queue.
C4_SecondStartRefused ==
  [][(/\ lastCall = "start_making_frames" /\ lastResult \in {"ok", "InProgress"}
      /\ calls' = calls + 1 /\ lastCall' = "start_making_frames") =>
       /\ lastResult' = "InProgress"
       /\ UNCHANGED <<run, qin, qout, fw, frame_workers>>]_vars

C4_Witness ==
  /\ lastCall = "start_making_frames" /\ lastResult = "InProgress"
  /\ calls = 2 /\ nt = 2 /\ run = 1

\* C5: wait_for_frames() as the first call on a new Gifception raises the
\* GifceptionException "No frame-generating process was ever started!".
C5_FreshWaitIsConcurrencyError ==
  (lastCall = "wait_for_frames" /\ calls = 1) => lastResult = "NeverStarted"

\* C6: the workers still running all belong to one run.
C6_OneRunAlive ==
  \A v \in WorkerIds, w \in WorkerIds : (alive(v) /\ alive(w)) => v[1] = w[1]

\* C7: a wait_for_frames(timeout) one of whose joins expired on a worker that
\* was inside make_frame, no worker having failed, returns normally or raises
\* a timeout error, not an incomplete-generation error.
C7_TimeoutIsNotIncomplete ==
  (WaitDone /\ lastCall = "wait_for_frames" /\ timeout /\ joinExpired
     /\ nf >= 2 /\ ~failed[run]) => lastResult \in {"ok", "WaitTimeoutError"}

\* C8: under fair scheduling a make_frames() in which no make_frame call
\* raises returns normally, every worker of the run having ended after its
\* stop marker.
C8_MakeFramesReturns ==
  (lastCall = "make_frames" /\ pc # "idle") ~>
    \/ /\ MakeFramesDone /\ lastResult = "ok"
       /\ \A w \in RunWorkers : fw[w].pc = "done"
    \/ (run > 0 /\ failed[run])

C8_Witness ==
  /\ MakeFramesDone /\ lastResult = "ok" /\ nf >= 2 /\ nt = 2
  /\ \A w \in RunWorkers : fw[w].pc = "done"
  /\ Len(qout[run]) = nf + nt

\* C9: scale raises the pixel-limit error exactly when w*h*factor^2 exceeds
\* the limit in force (the max_pixels argument, else config["max_pixels"]) and
\* that limit is positive, and the limit compared is the limit reported.
C9_ScaleLimit ==
  op.name = "scale" =>
    LET limit == IF op.arg # 0 THEN op.arg ELSE max_pixels IN
    /\ (res.why = "max_pixels") <=>
         (exceeds(res.before.w, res.before.h, op.factor, limit) /\ limit > 0)
    /\ res.why = "max_pixels" => res.compared = res.reported

\* C10: set_anchor_absolute(p) with p outside the image raises a validation
\* error and leaves the relative anchor as it was, also through the
\* constructor and through Gifception.set_anchor_absolute.
OutOfBounds(p, w, h) == p[1] > w \/ p[2] > h \/ p[1] < 0 \/ p[2] < 0
C10_AnchorOutOfBoundsRaises ==
  (/\ op.name \in {"set_anchor_absolute", "Gifception.set_anchor_absolute",
                   "__init__"}
   /\ OutOfBounds(op.p, img.w, img.h)) =>
    /\ res.raised = "ValueError"
    /\ img.rel_anchor = res.before.rel_anchor

\* C11: a scale, zoom_in or paste_aligned that does not raise leaves the
\* relative anchor as it was, anchor_absolute() and get_anchor_absolute() are
\* then (rel_x * width, rel_y * height) of the image as it is now, and
\* paste_aligned leaves the pasted image as it was.
C11_AnchorSurvives ==
  [][(/\ op'.name \in {"scale", "zoom_in", "paste_aligned"}
      /\ res'.raised = "none" /\ img.rel_anchor # Unset) =>
       /\ img'.rel_anchor = img.rel_anchor
       /\ res'.abs = <<Frac(img.rel_anchor[1][1] * img'.w, img.rel_anchor[1][2]),
                       Frac(img.rel_anchor[2][1] * img'.h, img.rel_anchor[2][2])>>
       /\ res'.get_abs = res'.abs
       /\ op'.name = "paste_aligned" => res'.other = op'.other]_vars

C11_Witness ==
  /\ op.name = "scale" /\ res.raised = "none" /\ op.factor = <<1, 2>>
  /\ res.before.w = 3 /\ img.w = 1 /\ img.rel_anchor[1] = <<1, 3>>
  /\ res.before.rel_anchor = img.rel_anchor /\ res.abs[1] = <<1, 3>>

\* C12: for every base image and parameters with preup > 0 and
\* inner_scale > 0, the paste/shrink loop of prepare_nested_base, once
\* entered, reaches its break.
C12_LoopTerminates == (bpc = "paste") ~> (bpc = "done")

\* C13: when the loop of prepare_nested_base stops on a failed mini.scale, the
\* failed step changes neither nested_base nor mini and nothing is raised;
\* nested_base then is the base scaled by preup with one paste per completed
\* iteration, the first of the size of the base scaled by preup/inner_scale,
\* each next one of the size of the one before scaled by 1/inner_scale, the
\* last one being the mini whose scaling failed.
C13_OnlyCompletedPastes ==
  /\ [][(bpc = "scale" /\ bpc' # "paste") =>
          bpc' = "done" /\ nested_base' = nested_base /\ mini' = mini]_vars
  /\ [](bpc = "done" =>
        LET ps == nested_base.pastes IN
        /\ nested_base.w = new_dim(base_image.w, params.preup)
        /\ nested_base.h = new_dim(base_image.h, params.preup)
        /\ Len(ps) >= 1
        /\ ps[1].w = new_dim(base_image.w, FMul(params.preup, s))
        /\ ps[1].h = new_dim(base_image.h, FMul(params.preup, s))
        /\ \A j \in 1..Len(ps) - 1 :
             /\ ps[j + 1].w = new_dim(ps[j].w, s)
             /\ ps[j + 1].h = new_dim(ps[j].h, s)
        /\ ps[Len(ps)].w = mini.w /\ ps[Len(ps)].h = mini.h
        /\ scale_raises(mini, s, DefaultMaxPixels) # "none")

C13_Witness ==
  /\ bpc = "done" /\ Len(nested_base.pastes) = 2
  /\ nested_base.w = 6 /\ mini.w = 1 /\ params.inner_scale = <<2, 1>>

\* the frame indices whose file is in the directory of run r
Saved(r) == {i \in 1..nf : frame_name(i) \in DOMAIN frames[r]}
\* number of stop markers in a queue
RECURSIVE Markers(_)
Markers(q) ==
  IF q = <<>> THEN 0 ELSE (IF Head(q) = None THEN 1 ELSE 0) + Markers(Tail(q))

\* C14 as stated: for the base image 800x600 with preup 2, inner_scale 4,
\* downscale 2, five frames and three workers, every frame file has the size
\* 400x300.
C14_Example400x300 ==
  (base_image.w = 800 /\ base_image.h = 600) =>
    \A r \in Runs : \A i \in Saved(r) :
      frames[r][frame_name(i)].w = 400 /\ frames[r][frame_name(i)].h = 300

\* C14 amended: make_frames() returns normally with the files frame-00001 ..
\* frame-0000N, and every frame has the size of the base scaled by preup and
\* truncated, then scaled by 1/downscale and truncated: 800x600 for the base
\* image 800x600 with preup 2 and downscale 2.
C14_FrameSize ==
  /\ \A r \in Runs : \A i \in Saved(r) :
       /\ frames[r][frame_name(i)].w =
            new_dim(new_dim(base_image.w, params.preup), downscale_factor(params))
       /\ frames[r][frame_name(i)].h =
            new_dim(new_dim(base_image.h, params.preup), downscale_factor(params))
       /\ (base_image.w = 800 /\ base_image.h = 600) =>
            frames[r][frame_name(i)].w = 800 /\ frames[r][frame_name(i)].h = 600
  /\ MakeFramesDone => lastResult = "ok" /\ Saved(run) = 1..nf

C14_Witness ==
  /\ MakeFramesDone /\ nf = 5 /\ nt = 3 /\ base_image.w = 800
  /\ Saved(run) = 1..5
  /\ frames[run][frame_name(5)].w = 800 /\ frames[run][frame_name(5)].h = 600

\* C15: with no failure, a worker pops a stop marker only when the task queue
\* holds nothing but stop markers; the stop markers still queued and the
\* workers that popped one are P in all, each worker that ended forwarded one
\* stop marker, and a worker that ended takes no further step.
C15_StopMarkers ==
  /\ [][\A w \in WorkerIds :
          /\ (fw[w].pc = "get" /\ fw'[w].pc = "put_none") =>
               \A i \in 1..Len(qin[w[1]]) : qin[w[1]][i] = None
          /\ (fw[w].pc = "done" /\ run' = run) => fw'[w] = fw[w]]_vars
  /\ []((run > 0 /\ ~failed[run]) =>
        /\ Markers(qin[run])
             + Cardinality({w \in RunWorkers : fw[w].pc \in {"put_none", "done"}}) = nt
        /\ Markers(qout[run]) = Cardinality({w \in RunWorkers : fw[w].pc = "done"}))

C15_Witness ==
  /\ run > 0 /\ ~failed[run] /\ nt = 2 /\ nf = 2
  /\ \A w \in RunWorkers : fw[w].pc = "done"
  /\ Markers(qout[run]) = 2 /\ qin[run] = <<>>

\* C16: every frame index on a result queue has been popped from the task
\* queue of its run, is held by no worker that still renders it, and has its
\* file in the directory of the run.
C16_PushedAfterSave ==
  \A r \in Runs : \A j \in 1..Len(qout[r]) :
    LET i == qout[r][j] IN
    i # None =>
      /\ i \in 1..nf
      /\ frame_name(i) \in DOMAIN files[r]
      /\ \A k \in 1..Len(qin[r]) : qin[r][k] # i
      /\ \A w \in WorkerIds : (w[1] = r /\ fw[w].pc = "render") => fw[w].nframe # i

C16_Witness ==
  /\ run > 0 /\ nt = 2
  /\ qout[run] # <<>> /\ qout[run][1] = 2
  /\ \E w \in RunWorkers : fw[w].pc = "render" /\ fw[w].nframe = 1

\* C17: make_frame leaves the nested base of its worker as the orchestrator
\* gave it, and the image saved for frame i is the one that the nested base,
\* the parameters and i determine, whichever worker saved it.
C17_FrameIsFunction ==
  /\ \A w \in WorkerIds :
       fw[w].pc # "unstarted" => fw[w].nested_base = nested_base
  /\ \A r \in Runs : \A i \in Saved(r) :
       frames[r][frame_name(i)] = saved_frame(nested_base, params, nf, i)

C17_Witness ==
  /\ run > 0 /\ nt = 1 /\ nf = 2
  /\ Saved(run) = {1, 2}
  /\ frames[run][frame_name(2)].of = nested_base
  /\ nested_base.pastes # <<>>
  /\ \E w \in RunWorkers : fw[w].pc = "put" /\ fw[w].nframe = 2

\* C18: every worker was launched with the nested base that a
\* prepare_nested_base() that did not raise has built, and a
\* prepare_nested_base() that raised has left nested_base None.
C18_LaunchedFullyBuilt ==
  /\ \A w \in WorkerIds :
       fw[w].pc # "unstarted" =>
         /\ ~prepare_nested_base(base_image, params).raised
         /\ fw[w].nested_base = prepare_nested_base(base_image, params).nested_base
  /\ (lastResult = "ValueError" /\ pc = "idle") => nested_base = NoBase

\* C19: a task queue and a result queue never hold more than numFrames + P
\* items, the list pre-loaded fits in the task queue, and the result queue is
\* not full when a worker is about to put.
C19_QueuesFit ==
  /\ Len(qin_l) <= maxsize
  /\ \A r \in Runs : Len(qin[r]) <= nf + nt /\ Len(qout[r]) <= nf + nt
  /\ \A w \in WorkerIds :
       fw[w].pc \in {"put", "put_none"} => Len(qout[w[1]]) < maxsize

C19_Witness ==
  /\ run > 0 /\ nt = 2 /\ nf = 2
  /\ Len(qout[run]) = nf + nt
  /\ \A w \in RunWorkers : fw[w].pc = "done"

\* C20: once a run was started, is_making_frames() is True exactly while some
\* worker of the run has not terminated.
C20_IsMakingFrames ==
  (run > 0 /\ nf >= 2) => (is_making_frames <=> \E w \in RunWorkers : alive(w))

====
